---- MODULE Spec2Model ----
(***************************************************************************)
(* The three Python Lambda handlers of the repository, as a state machine. *)
(*                                                                         *)
(*   terraform/scripts/ephemeral-cleanup.py  the ephemeral-environment     *)
(*                                           reaper (age check + four      *)
(*                                           list-then-delete sweepers)    *)
(*   lambda-functions/authorizer.py          the API-key authorizer        *)
(*                                                                         *)
(* Strings are sequences of one-character strings, so that startswith,     *)
(* `in`, int() and the header lookups are computed, not assumed.  The AWS  *)
(* collaborators are opaque: every call answers, at the time it is made,   *)
(* with a failure or with one of a small set of responses.                 *)
(***************************************************************************)
EXTENDS Integers, Sequences, FiniteSets, TLC

VARIABLES
    pc,                 \* position of the cleanup handler
    environment_prefix, \* lambda_handler's local, line 19
    auto_destroy_hours, \* lambda_handler's local, line 20
    cleanup_results,    \* the report dict, lines 31-36
    response,           \* what lambda_handler returned
    calls,              \* the calls the sweepers have issued so far, in order
    ddb_client_ok,      \* whether boto3.client('dynamodb') can be built
    age,                \* should_cleanup_environment's locals, calls and result
    listed,             \* the running sweeper's accepted listing responses
    queue,              \* the running sweeper's matches still to delete
    more_pages,         \* the log-group paginator has a further page
    pages_read,         \* pages the log-group paginator has fetched
    listed_total,       \* resources returned to the sweepers so far
    auth_pc,            \* position of the authorizer handler
    auth_event,         \* the authorizer's event
    auth_response       \* what the authorizer returned

cleanup_vars == <<pc, environment_prefix, auto_destroy_hours, cleanup_results,
                  response, calls, ddb_client_ok, age, listed, queue,
                  more_pages, pages_read, listed_total>>
auth_vars == <<auth_pc, auth_event, auth_response>>
vars == <<cleanup_vars, auth_vars>>

----------------------------------------------------------------------------
(* Bounds of the model *)

\* Longest list one listing call (or one page) returns.
MaxList == 2
\* Resources returned to the four sweepers in one invocation, all kinds together.
MaxResources == 2
\* Pages the log-group paginator yields at most.
MaxPages == 2

----------------------------------------------------------------------------
(* Strings *)

\* `p in s` for strings: p occurs in s at some position
str_in(p, s) ==
    \E i \in 1..(Len(s) - Len(p) + 1) : SubSeq(s, i, i + Len(p) - 1) = p

\* Mutant of startswith: the prefix found anywhere in the string.
startswith_anywhere(s, p) == str_in(p, s)

\* str.startswith(prefix)
startswith(s, p) ==
    /\ Len(p) <= Len(s)
    /\ SubSeq(s, 1, Len(p)) = p

DigitChars == {"0", "1", "2", "3", "4", "5", "6", "7", "8", "9"}

DigitVal(c) ==
    CASE c = "0" -> 0 [] c = "1" -> 1 [] c = "2" -> 2 [] c = "3" -> 3
      [] c = "4" -> 4 [] c = "5" -> 5 [] c = "6" -> 6 [] c = "7" -> 7
      [] c = "8" -> 8 [] c = "9" -> 9

RECURSIVE strip(_)
\* str.strip() as int() applies it: leading and trailing blanks dropped
strip(s) ==
    IF s = <<>> THEN s
    ELSE IF Head(s) = " " THEN strip(Tail(s))
    ELSE IF s[Len(s)] = " " THEN strip(SubSeq(s, 1, Len(s) - 1))
    ELSE s

RECURSIVE digits_value(_)
digits_value(s) ==
    IF s = <<>> THEN 0
    ELSE 10 * digits_value(SubSeq(s, 1, Len(s) - 1)) + DigitVal(s[Len(s)])

\* The unsigned part of a decimal literal: at least one digit, digits only.
all_digits(s) == s # <<>> /\ \A i \in 1..Len(s) : s[i] \in DigitChars

\* int(s) for a str: [ok |-> FALSE] stands for ValueError
int(s) ==
    LET t == strip(s)
        signed == t # <<>> /\ Head(t) \in {"+", "-"}
        body == IF signed THEN Tail(t) ELSE t
    IN  IF all_digits(body)
        THEN [ok |-> TRUE,
              value |-> IF signed /\ Head(t) = "-" THEN 0 - digits_value(body)
                        ELSE digits_value(body)]
        ELSE [ok |-> FALSE, value |-> 0]

----------------------------------------------------------------------------
(* The process environment *)

\* An environment variable: unset, or set to a string.
EnvVar(isset, value) == [isset |-> isset, value |-> value]

\* os.environ.get(name, default)
environ_get(var, default) == IF var.isset THEN var.value ELSE default

PrefixInputs ==
    { EnvVar(FALSE, <<>>), EnvVar(TRUE, <<>>), EnvVar(TRUE, <<"a", "b">>) }

HoursInputs ==
    { EnvVar(FALSE, <<>>),          \* unset: the default '24'
      EnvVar(TRUE, <<"1">>),
      EnvVar(TRUE, <<"2", "4">>),
      EnvVar(TRUE, <<" ", "1">>),
      EnvVar(TRUE, <<>>),           \* '' : malformed
      EnvVar(TRUE, <<"x">>),        \* malformed
      EnvVar(TRUE, <<"1", ".", "5">>) }

\* Resource names the listings draw from, around the prefix 'ab': equal to it,
\* starting with it, holding it further on, and not holding it.
Names == { <<"a", "b">>, <<"a", "b", "c">>, <<"c", "a", "b">>, <<"a">> }

\* Messages of the exceptions the collaborators' calls raise.
ErrMsgs == {"AccessDenied"}

\* Messages of the exceptions boto3.client raises.
ClientErrMsgs == {"You must specify a region."}

----------------------------------------------------------------------------
(* The collaborators' answers *)

SeqsUpTo(S, n) == UNION { [1..k -> S] : k \in 0..n }

\* How a call ends: normally, or raising an exception with a message.
Returned == [ok |-> TRUE, err |-> ""]
CallResults == { Returned } \cup { [ok |-> FALSE, err |-> m] : m \in ErrMsgs }

\* The answers of a listing call that may return up to n names.
ListResponses(n) ==
    { [ok |-> FALSE, names |-> <<>>, err |-> m] : m \in ErrMsgs }
    \cup { [ok |-> TRUE, names |-> s, err |-> ""] : s \in SeqsUpTo(Names, n) }

\* Ages, in seconds, of the table describe_table reports on.
AgeInputs == { 0 - 1, 0, 3599, 3600, 3601, 86399, 86400, 86401 }

DescribeNotCalled == [called |-> FALSE, ok |-> FALSE, name |-> <<>>, seconds |-> 0]

DescribeResponses(name) ==
    { [called |-> TRUE, ok |-> FALSE, name |-> name, seconds |-> 0] }
    \cup { [called |-> TRUE, ok |-> TRUE, name |-> name, seconds |-> a] : a \in AgeInputs }

ListNotCalled == [ok |-> FALSE, names |-> <<>>, err |-> ""]

\* s3.list_objects_v2: raises, or answers with or without a 'Contents' key.
ObjectListings ==
    { [ok |-> FALSE, err |-> m, has_contents |-> FALSE] : m \in ErrMsgs }
    \cup { [ok |-> TRUE, err |-> "", has_contents |-> c] : c \in BOOLEAN }

\* One entry of the call log.
Call(by, op, name, res) ==
    [by |-> by, op |-> op, name |-> name, ok |-> res.ok, err |-> res.err]

----------------------------------------------------------------------------
(* The report *)

NoResults ==
    [keys |-> {}, environment_prefix |-> <<>>, auto_destroy_hours |-> 0,
     resources_cleaned |-> <<>>, action |-> "", reason |-> "", status |-> "",
     error |-> <<>>]

\* lines 31-36 (cleanup_timestamp, the wall clock's reading, is left out)
new_cleanup_results(prefix, hours) ==
    [NoResults EXCEPT
        !.keys = {"environment_prefix", "auto_destroy_hours",
                  "cleanup_timestamp", "resources_cleaned"},
        !.environment_prefix = prefix,
        !.auto_destroy_hours = hours]

\* lines 23-26: the body of the 400 answer
missing_prefix_body ==
    [NoResults EXCEPT !.keys = {"error"},
                      !.error = <<"ENVIRONMENT_PREFIX not configured">>]

\* json.dumps is one-to-one on these dicts: the body is modelled by the dict.
Response(code, body) == [statusCode |-> code, body |-> body]

NoResponse == Response(0, NoResults)

\* The dict a sweeper appends for one resource (the 'error' key only on failure).
outcome(type, name, res) ==
    [type |-> type, name |-> name,
     status |-> IF res.ok THEN "deleted" ELSE "error",
     error |-> IF res.ok THEN "" ELSE res.err]

\* Mutant of append_outcome: a failed delete is recorded twice.
append_outcome_twice(results, o) ==
    [results EXCEPT !.resources_cleaned =
        IF o.status = "error" THEN Append(Append(@, o), o) ELSE Append(@, o)]

\* results['resources_cleaned'].append({...})
append_outcome(results, o) ==
    [results EXCEPT !.resources_cleaned = Append(@, o)]

NoAge == [called |-> FALSE, client_ok |-> FALSE, list |-> ListNotCalled,
          describe |-> DescribeNotCalled, calls |-> <<>>, result |-> FALSE]

----------------------------------------------------------------------------
(* ephemeral-cleanup.py: should_cleanup_environment *)

\* line 103
SecondsPerHour == 3600

\* Mutant of age_old_enough: the threshold itself is not old enough.
age_past_threshold(seconds, hours) == seconds > hours * SecondsPerHour

\* lines 102-107: age_hours >= auto_destroy_hours, the age given in seconds
age_old_enough(seconds, hours) == seconds >= hours * SecondsPerHour

\* [table for table in tables if table.startswith(environment_prefix)]
starting_with(names, prefix) == SelectSeq(names, LAMBDA n : startswith(n, prefix))

\* [lg for lg in log_groups if environment_prefix in lg]
holding(names, prefix) == SelectSeq(names, LAMBDA n : str_in(prefix, n))

\* The function's value, given what its collaborators answered.  Whatever
\* raises inside its try (building the client, list_tables, describe_table,
\* reading the answer) ends in the except branch, which returns True.
should_cleanup_environment(prefix, hours, client_ok, list_resp, desc_resp) ==
    IF ~client_ok \/ ~list_resp.ok THEN TRUE
    ELSE IF starting_with(list_resp.names, prefix) = <<>> THEN TRUE
    ELSE IF ~desc_resp.ok THEN TRUE
    ELSE age_old_enough(desc_resp.seconds, hours)

\* The describe_table call the function makes, if it gets that far: on the
\* first table of the listing that starts with the prefix.
describe_answers(prefix, client_ok, list_resp) ==
    IF client_ok /\ list_resp.ok /\ starting_with(list_resp.names, prefix) # <<>>
    THEN DescribeResponses(Head(starting_with(list_resp.names, prefix)))
    ELSE { DescribeNotCalled }

age_check_calls(client_ok, list_resp, desc_resp) ==
    << Call("should_cleanup_environment", "boto3.client", <<>>,
            [ok |-> client_ok, err |-> ""]) >>
    \o (IF client_ok
        THEN << Call("should_cleanup_environment", "list_tables", <<>>, list_resp) >>
        ELSE <<>>)
    \o (IF desc_resp.called
        THEN << Call("should_cleanup_environment", "describe_table", desc_resp.name,
                     [ok |-> desc_resp.ok, err |-> ""]) >>
        ELSE <<>>)

----------------------------------------------------------------------------
(* ephemeral-cleanup.py: lambda_handler *)

\* lines 19-36: read the configuration, answer 400 without a prefix
read_configuration ==
    /\ pc = "idle"
    /\ auth_pc = "idle"
    /\ \E pv \in PrefixInputs, hv \in HoursInputs :
        LET prefix == environ_get(pv, <<>>)
            hours == int(environ_get(hv, <<"2", "4">>))
        IN  IF ~hours.ok
            THEN \* int() raises ValueError outside the try: it leaves the handler
                 /\ pc' = "raised"
                 /\ UNCHANGED <<environment_prefix, auto_destroy_hours,
                                cleanup_results, response>>
            ELSE IF prefix = <<>>
            THEN /\ pc' = "returned"
                 /\ response' = Response(400, missing_prefix_body)
                 /\ UNCHANGED <<environment_prefix, auto_destroy_hours,
                                cleanup_results>>
            ELSE /\ pc' = "age_check"
                 /\ environment_prefix' = prefix
                 /\ auto_destroy_hours' = hours.value
                 /\ cleanup_results' = new_cleanup_results(prefix, hours.value)
                 /\ UNCHANGED response
    /\ UNCHANGED <<calls, ddb_client_ok, age, listed, queue, more_pages,
                   pages_read, listed_total, auth_vars>>

\* line 40: the call of should_cleanup_environment, with its collaborators' answers
check_age ==
    /\ pc = "age_check"
    /\ \E client_ok \in BOOLEAN :
       \E list_resp \in (IF client_ok THEN ListResponses(MaxList) ELSE {ListNotCalled}) :
       \E desc_resp \in describe_answers(environment_prefix, client_ok, list_resp) :
        /\ ddb_client_ok' = client_ok
        /\ age' = [called |-> TRUE, client_ok |-> client_ok, list |-> list_resp,
                   describe |-> desc_resp,
                   calls |-> age_check_calls(client_ok, list_resp, desc_resp),
                   result |-> should_cleanup_environment(environment_prefix,
                                 auto_destroy_hours, client_ok, list_resp, desc_resp)]
    /\ pc' = "age_checked"
    /\ UNCHANGED <<environment_prefix, auto_destroy_hours, cleanup_results, response,
                   calls, listed, queue, more_pages, pages_read, listed_total, auth_vars>>

\* lines 41-46: the report of a skipped sweep
skipped_results(results) ==
    [results EXCEPT !.keys = @ \cup {"action", "reason"},
                    !.action = "skipped",
                    !.reason = "Environment not old enough for cleanup"]

\* Mutant of return_skipped: the report is marked, the return is missing.
return_skipped_forgotten ==
    /\ pc = "age_checked"
    /\ ~age.result
    /\ cleanup_results' = skipped_results(cleanup_results)
    /\ pc' = "tables"
    /\ age' = NoAge
    /\ UNCHANGED <<environment_prefix, auto_destroy_hours, response, calls,
                   ddb_client_ok, listed, queue, more_pages, pages_read,
                   listed_total, auth_vars>>

\* lines 40-46: not old enough, answer 200 'skipped'
return_skipped ==
    /\ pc = "age_checked"
    /\ ~age.result
    /\ cleanup_results' = skipped_results(cleanup_results)
    /\ response' = Response(200, skipped_results(cleanup_results))
    /\ pc' = "returned"
    /\ age' = NoAge
    /\ UNCHANGED <<environment_prefix, auto_destroy_hours, calls, ddb_client_ok,
                   listed, queue, more_pages, pages_read, listed_total, auth_vars>>

\* lines 40, 48-49: old enough, go on to the first sweeper
start_sweep ==
    /\ pc = "age_checked"
    /\ age.result
    /\ pc' = "tables"
    /\ age' = NoAge
    /\ UNCHANGED <<environment_prefix, auto_destroy_hours, cleanup_results, response,
                   calls, ddb_client_ok, listed, queue, more_pages, pages_read,
                   listed_total, auth_vars>>

\* lines 70-79: an exception that left a sweeper; e is its message
failed_results(results, e) ==
    [results EXCEPT !.keys = @ \cup {"action", "error"},
                    !.action = "failed",
                    !.error = <<"Cleanup failed: ", e>>]

handle_exception(e) ==
    /\ cleanup_results' = failed_results(cleanup_results, e)
    /\ response' = Response(500, failed_results(cleanup_results, e))
    /\ pc' = "returned"

\* lines 60-68: all four sweepers returned
completed_results(results) ==
    [results EXCEPT !.keys = @ \cup {"action", "status"},
                    !.action = "completed",
                    !.status = "success"]

return_completed ==
    /\ pc = "completed"
    /\ cleanup_results' = completed_results(cleanup_results)
    /\ response' = Response(200, completed_results(cleanup_results))
    /\ pc' = "returned"
    /\ UNCHANGED <<environment_prefix, auto_destroy_hours, calls, ddb_client_ok, age,
                   listed, queue, more_pages, pages_read, listed_total, auth_vars>>

----------------------------------------------------------------------------
(* ephemeral-cleanup.py: the four sweepers *)

\* Mutant of after_sweeper: the event buses swept before the buckets.
after_sweeper_buses_first(here) ==
    CASE here = "tables" -> "buses"
      [] here = "buses" -> "buckets"
      [] here = "buckets" -> "logs"
      [] here = "logs" -> "completed"

\* lines 48-60: the order in which lambda_handler calls the sweepers
after_sweeper(here) ==
    CASE here = "tables" -> "buckets"
      [] here = "buckets" -> "buses"
      [] here = "buses" -> "logs"
      [] here = "logs" -> "completed"

\* Names a listing call may still return within the bounds.
room == IF MaxResources - listed_total < MaxList
        THEN MaxResources - listed_total ELSE MaxList

\* Mutant of rest_after: a delete that raises ends the loop.
rest_after_until_error(matches, res) == IF res.ok THEN Tail(matches) ELSE <<>>

\* The for loops over the matches: the next iteration takes the next match,
\* whether the delete of this one raised (the inner except) or not.
rest_after(matches, res) == Tail(matches)

\* boto3.client(...) raises outside the sweeper's try: the exception leaves the
\* sweeper and reaches lambda_handler's except.
client_raises(by) ==
    /\ \E e \in ClientErrMsgs :
        /\ calls' = Append(calls, Call(by, "boto3.client", <<>>,
                                       [ok |-> FALSE, err |-> e]))
        /\ handle_exception(e)
    /\ UNCHANGED <<environment_prefix, auto_destroy_hours, ddb_client_ok, age,
                   listed, queue, more_pages, pages_read, listed_total, auth_vars>>

\* The log entry of a client built by the sweeper's first line.  The log-group
\* sweeper's is logged by the step that builds it, before its first page.
client_built(by) ==
    IF by = "cleanup_cloudwatch_logs" THEN <<>>
    ELSE << Call(by, "boto3.client", <<>>, Returned) >>

\* Mutant of listing_failed: the sweeper lets the listing's exception through.
listing_failed_raises(here, by, op, resp) ==
    /\ calls' = calls \o client_built(by) \o << Call(by, op, <<>>, resp) >>
    /\ handle_exception(resp.err)
    /\ UNCHANGED <<environment_prefix, auto_destroy_hours, ddb_client_ok, age,
                   listed, queue, more_pages, pages_read, listed_total, auth_vars>>

\* The listing failed: the sweeper's outer except prints and the sweeper returns.
listing_failed(here, by, op, resp) ==
    /\ calls' = calls \o client_built(by) \o << Call(by, op, <<>>, resp) >>
    /\ pc' = after_sweeper(here)
    /\ listed' = <<>>
    /\ queue' = <<>>
    /\ more_pages' = FALSE
    /\ pages_read' = 0
    /\ UNCHANGED <<environment_prefix, auto_destroy_hours, cleanup_results, response,
                   ddb_client_ok, age, listed_total, auth_vars>>

\* The listing answered: keep its matches, enter the loop.
listing_answered(loop, by, op, resp, matches) ==
    /\ calls' = calls \o client_built(by) \o << Call(by, op, <<>>, resp) >>
    /\ pc' = loop
    /\ listed' = listed \o resp.names
    /\ queue' = matches
    /\ listed_total' = listed_total + Len(resp.names)
    /\ UNCHANGED <<environment_prefix, auto_destroy_hours, cleanup_results, response,
                   ddb_client_ok, age, auth_vars>>

\* One iteration of a single-call delete loop: the delete, then the outcome.
delete_next(loop, by, op, type) ==
    /\ pc = loop
    /\ queue # <<>>
    /\ \E res \in CallResults :
        /\ calls' = Append(calls, Call(by, op, Head(queue), res))
        /\ cleanup_results' =
               append_outcome(cleanup_results, outcome(type, Head(queue), res))
        /\ queue' = rest_after(queue, res)
    /\ UNCHANGED <<pc, environment_prefix, auto_destroy_hours, response, ddb_client_ok,
                   age, listed, more_pages, pages_read, listed_total, auth_vars>>

\* The loop is over: the sweeper returns and lambda_handler calls the next one.
sweeper_returns(here, loop) ==
    /\ pc = loop
    /\ queue = <<>>
    /\ pc' = after_sweeper(here)
    /\ listed' = <<>>
    /\ more_pages' = FALSE
    /\ pages_read' = 0
    /\ UNCHANGED <<environment_prefix, auto_destroy_hours, cleanup_results, response,
                   calls, ddb_client_ok, age, queue, listed_total, auth_vars>>

\* lines 113-142
cleanup_dynamodb_tables ==
    \/ /\ pc = "tables"
       /\ ~ddb_client_ok
       /\ client_raises("cleanup_dynamodb_tables")
    \/ /\ pc = "tables"
       /\ ddb_client_ok
       /\ \E resp \in ListResponses(room) :
            IF resp.ok
            THEN /\ listing_answered("tables_loop", "cleanup_dynamodb_tables",
                        "list_tables", resp,
                        starting_with(resp.names, environment_prefix))
                 /\ UNCHANGED <<more_pages, pages_read>>
            ELSE listing_failed("tables", "cleanup_dynamodb_tables", "list_tables", resp)
    \/ delete_next("tables_loop", "cleanup_dynamodb_tables", "delete_table",
                   "dynamodb_table")
    \/ sweeper_returns("tables", "tables_loop")

\* Mutant of bucket_outcome: a failure of the object phase is the bucket's outcome.
bucket_outcome_of_objects(name, objects, deleted_objects, deleted_bucket) ==
    IF ~objects.ok THEN outcome("s3_bucket", name, objects)
    ELSE IF ~deleted_objects.ok THEN outcome("s3_bucket", name, deleted_objects)
    ELSE outcome("s3_bucket", name, deleted_bucket)

\* lines 159-185: the outcome recorded for one bucket, given how list_objects_v2,
\* delete_objects and delete_bucket ended.  The inner try swallows the first two.
bucket_outcome(name, objects, deleted_objects, deleted_bucket) ==
    outcome("s3_bucket", name, deleted_bucket)

\* The calls of one iteration of the bucket loop, in order.
bucket_calls(name, objects, deleted_objects, deleted_bucket) ==
    << Call("cleanup_s3_buckets", "list_objects_v2", name, objects) >>
    \o (IF objects.ok /\ objects.has_contents
        THEN << Call("cleanup_s3_buckets", "delete_objects", name, deleted_objects) >>
        ELSE <<>>)
    \o << Call("cleanup_s3_buckets", "delete_bucket", name, deleted_bucket) >>

\* lines 144-188
cleanup_s3_buckets ==
    \/ /\ pc = "buckets"
       /\ client_raises("cleanup_s3_buckets")
    \/ /\ pc = "buckets"
       /\ \E resp \in ListResponses(room) :
            IF resp.ok
            THEN /\ listing_answered("buckets_loop", "cleanup_s3_buckets",
                        "list_buckets", resp,
                        starting_with(resp.names, environment_prefix))
                 /\ UNCHANGED <<more_pages, pages_read>>
            ELSE listing_failed("buckets", "cleanup_s3_buckets", "list_buckets", resp)
    \/ /\ pc = "buckets_loop"
       /\ queue # <<>>
       /\ \E objects \in ObjectListings :
          \E deleted_objects \in
                (IF objects.ok /\ objects.has_contents THEN CallResults
                 ELSE { Returned }) :
          \E deleted_bucket \in CallResults :
            /\ calls' = calls \o bucket_calls(Head(queue), objects, deleted_objects,
                                              deleted_bucket)
            /\ cleanup_results' =
                   append_outcome(cleanup_results,
                       bucket_outcome(Head(queue), objects, deleted_objects,
                                      deleted_bucket))
            /\ queue' = rest_after(queue, deleted_bucket)
       /\ UNCHANGED <<pc, environment_prefix, auto_destroy_hours, response,
                      ddb_client_ok, age, listed, more_pages, pages_read,
                      listed_total, auth_vars>>
    \/ sweeper_returns("buckets", "buckets_loop")

\* lines 190-219
cleanup_eventbridge_buses ==
    \/ /\ pc = "buses"
       /\ client_raises("cleanup_eventbridge_buses")
    \/ /\ pc = "buses"
       /\ \E resp \in ListResponses(room) :
            IF resp.ok
            THEN /\ listing_answered("buses_loop", "cleanup_eventbridge_buses",
                        "list_event_buses", resp,
                        starting_with(resp.names, environment_prefix))
                 /\ UNCHANGED <<more_pages, pages_read>>
            ELSE listing_failed("buses", "cleanup_eventbridge_buses",
                                "list_event_buses", resp)
    \/ delete_next("buses_loop", "cleanup_eventbridge_buses", "delete_event_bus",
                   "eventbridge_bus")
    \/ sweeper_returns("buses", "buses_loop")

\* lines 221-253.  The paginator fetches a page when the for loop asks for it:
\* the matches of one page are deleted before the next page is fetched.
cleanup_cloudwatch_logs ==
    \/ /\ pc = "logs"
       /\ client_raises("cleanup_cloudwatch_logs")
    \/ /\ pc = "logs"
       /\ pc' = "logs_page"
       /\ calls' = Append(calls, Call("cleanup_cloudwatch_logs", "boto3.client", <<>>,
                                      Returned))
       /\ UNCHANGED <<environment_prefix, auto_destroy_hours, cleanup_results, response,
                      ddb_client_ok, age, listed, queue, more_pages, pages_read,
                      listed_total, auth_vars>>
    \/ /\ pc = "logs_page"
       /\ \E resp \in ListResponses(room) :
            IF resp.ok
            THEN /\ listing_answered("logs_loop", "cleanup_cloudwatch_logs",
                        "describe_log_groups", resp,
                        holding(resp.names, environment_prefix))
                 /\ pages_read' = pages_read + 1
                 /\ more_pages' \in (IF pages_read + 1 < MaxPages THEN BOOLEAN
                                     ELSE {FALSE})
            ELSE listing_failed("logs", "cleanup_cloudwatch_logs",
                                "describe_log_groups", resp)
    \/ delete_next("logs_loop", "cleanup_cloudwatch_logs", "delete_log_group",
                   "cloudwatch_log_group")
    \/ /\ pc = "logs_loop"
       /\ queue = <<>>
       /\ more_pages
       /\ pc' = "logs_page"
       /\ UNCHANGED <<environment_prefix, auto_destroy_hours, cleanup_results, response,
                      calls, ddb_client_ok, age, listed, queue, more_pages, pages_read,
                      listed_total, auth_vars>>
    \/ /\ ~more_pages
       /\ sweeper_returns("logs", "logs_loop")

----------------------------------------------------------------------------
(* authorizer.py *)

\* Python values the authorizer handles: None and str.
PyNone == [type |-> "NoneType", s |-> <<>>]
PyStr(s) == [type |-> "str", s |-> s]

\* The two keys line 18 looks up.
x_api_key == <<"x", "-", "a", "p", "i", "-", "k", "e", "y">>
X_API_Key == <<"X", "-", "A", "P", "I", "-", "K", "e", "y">>

\* Header names of the events: the two above, two more capitalisations of the
\* same name, and another header.
HeaderNames ==
    { x_api_key, X_API_Key,
      <<"X", "-", "A", "p", "i", "-", "K", "e", "y">>,
      <<"X", "-", "A", "P", "I", "-", "K", "E", "Y">>,
      <<"h", "o", "s", "t">> }

HeaderValues == { PyStr(<<>>), PyStr(<<"k">>) }

\* The event's 'headers': no such key, null, or a dict.
EmptyDict == [k \in {} |-> PyNone]
HeadersInputs ==
    { [kind |-> "absent", items |-> EmptyDict], [kind |-> "null", items |-> EmptyDict] }
    \cup { [kind |-> "dict", items |-> d] :
             d \in UNION { [D -> HeaderValues] : D \in SUBSET HeaderNames } }

NoEvent == [kind |-> "absent", items |-> EmptyDict]

\* dict.get(key)
dict_get(d, key) == IF key \in DOMAIN d THEN d[key] ELSE PyNone

\* bool(v)
truthy(v) == v.type = "str" /\ v.s # <<>>

\* a or b
py_or(a, b) == IF truthy(a) THEN a ELSE b

\* line 18
api_key_of(items) == py_or(dict_get(items, x_api_key), dict_get(items, X_API_Key))

\* line 21
is_authorized(api_key) == api_key.type # "NoneType" /\ Len(api_key.s) > 0

AuthResponse(authorized, key, value) ==
    [isAuthorized |-> authorized, context |-> [key |-> key, value |-> value]]

NoAuthResponse == AuthResponse(FALSE, "", PyNone)

\* lines 13-41.  event.get('headers', {}) is {} without the key and None for a
\* null; None.get raises AttributeError, which the except answers.
authorize(headers) ==
    IF headers.kind = "null"
    THEN AuthResponse(FALSE, "error", PyStr(<<"Authorization failed">>))
    ELSE LET api_key == api_key_of(headers.items)
         IN  AuthResponse(is_authorized(api_key), "apiKey",
                          IF is_authorized(api_key) THEN api_key
                          ELSE PyStr(<<"invalid">>))

authorizer_lambda_handler ==
    /\ auth_pc = "idle"
    /\ pc = "idle"
    /\ \E headers \in HeadersInputs :
        /\ auth_event' = headers
        /\ auth_response' = authorize(headers)
    /\ auth_pc' = "returned"
    /\ UNCHANGED cleanup_vars

----------------------------------------------------------------------------
(* The specification *)

Init ==
    /\ pc = "idle"
    /\ environment_prefix = <<>>
    /\ auto_destroy_hours = 0
    /\ cleanup_results = NoResults
    /\ response = NoResponse
    /\ calls = <<>>
    /\ ddb_client_ok = FALSE
    /\ age = NoAge
    /\ listed = <<>>
    /\ queue = <<>>
    /\ more_pages = FALSE
    /\ pages_read = 0
    /\ listed_total = 0
    /\ auth_pc = "idle"
    /\ auth_event = NoEvent
    /\ auth_response = NoAuthResponse

Next ==
    \/ read_configuration
    \/ check_age
    \/ return_skipped
    \/ start_sweep
    \/ cleanup_dynamodb_tables
    \/ cleanup_s3_buckets
    \/ cleanup_eventbridge_buses
    \/ cleanup_cloudwatch_logs
    \/ return_completed
    \/ authorizer_lambda_handler

Spec == Init /\ [][Next]_vars

----------------------------------------------------------------------------
(* Vocabulary of the properties *)

\* The sweepers in the order of the report: who calls, what it records, what
\* it calls, where its loop is, where lambda_handler is once it has returned.
Sweepers ==
    << [by |-> "cleanup_dynamodb_tables", type |-> "dynamodb_table",
        list |-> "list_tables", delete |-> "delete_table",
        loop |-> "tables_loop", then |-> "buckets"],
       [by |-> "cleanup_s3_buckets", type |-> "s3_bucket",
        list |-> "list_buckets", delete |-> "delete_bucket",
        loop |-> "buckets_loop", then |-> "buses"],
       [by |-> "cleanup_eventbridge_buses", type |-> "eventbridge_bus",
        list |-> "list_event_buses", delete |-> "delete_event_bus",
        loop |-> "buses_loop", then |-> "logs"],
       [by |-> "cleanup_cloudwatch_logs", type |-> "cloudwatch_log_group",
        list |-> "describe_log_groups", delete |-> "delete_log_group",
        loop |-> "logs_loop", then |-> "completed"] >>

SweeperIds == DOMAIN Sweepers

RankOfCaller(by) ==
    CASE by = "cleanup_dynamodb_tables" -> 1
      [] by = "cleanup_s3_buckets" -> 2
      [] by = "cleanup_eventbridge_buses" -> 3
      [] by = "cleanup_cloudwatch_logs" -> 4

RankOfType(type) ==
    CASE type = "dynamodb_table" -> 1
      [] type = "s3_bucket" -> 2
      [] type = "eventbridge_bus" -> 3
      [] type = "cloudwatch_log_group" -> 4

ListOps == {"list_tables", "list_buckets", "list_event_buses", "describe_log_groups"}

Outcomes == cleanup_results.resources_cleaned
OutcomesOf(k) == SelectSeq(Outcomes, LAMBDA o : o.type = Sweepers[k].type)
CallsOf(op) == SelectSeq(calls, LAMBDA c : c.op = op)
NamesOf(entries) == [i \in 1..Len(entries) |-> entries[i].name]
Count(names, n) == Cardinality({ i \in 1..Len(names) : names[i] = n })
NoRepeat(names) == \A i, j \in 1..Len(names) : names[i] = names[j] => i = j

\* name = p followed by something
HasPrefix(name, p) ==
    /\ Len(p) <= Len(name)
    /\ \A i \in 1..Len(p) : name[i] = p[i]

\* name = something, p, something
Occurs(p, name) ==
    \E off \in 0..(Len(name) - Len(p)) : \A i \in 1..Len(p) : name[off + i] = p[i]

\* The filter of sweeper k: a substring for the log groups, a prefix otherwise.
Matches(k, name) ==
    IF Sweepers[k].by = "cleanup_cloudwatch_logs"
    THEN Occurs(environment_prefix, name)
    ELSE HasPrefix(name, environment_prefix)

MatchesIn(k, names) == SelectSeq(names, LAMBDA n : Matches(k, n))

Running(k) == pc = Sweepers[k].loop
Entered(k) == \E i \in 1..Len(calls) : calls[i].by = Sweepers[k].by
ClientRaised ==
    \E i \in 1..Len(calls) : calls[i].op = "boto3.client" /\ ~calls[i].ok
ListingFailedAt(i) ==
    /\ ~calls[i].ok
    /\ calls[i].op \in ListOps
Answered == pc = "returned"
Swept == Answered /\ response.statusCode # 400 /\ response.body.action # "skipped"

\* What each delete call did is what the report says of it.
Recorded(k) ==
    LET outs == OutcomesOf(k)
        dels == CallsOf(Sweepers[k].delete)
    IN  /\ Len(outs) = Len(dels)
        /\ \A i \in 1..Len(outs) :
            /\ outs[i].name = dels[i].name
            /\ outs[i].status = (IF dels[i].ok THEN "deleted" ELSE "error")
            /\ outs[i].error = dels[i].err

----------------------------------------------------------------------------
(* The claims *)

C1_Inv ==
    response.body.action = "skipped" =>
        /\ Answered
        /\ response.statusCode = 200
        /\ response.body.reason # ""
        /\ response.body.resources_cleaned = <<>>
        /\ calls = <<>>

C1_Step ==
    (pc = "age_checked" /\ ~age.result) =>
        /\ pc' = "returned"
        /\ response'.statusCode = 200
        /\ response'.body.action = "skipped"
        /\ response'.body.reason # ""
        /\ response'.body.resources_cleaned = <<>>
        /\ calls' = <<>>

\* C1: when should_cleanup_environment returns false, the very next step of the
\* handler is its return, with statusCode 200 and a report whose action is
\* 'skipped', whose reason is not empty and whose resources_cleaned is empty;
\* no sweeper has run: no call of a sweeper (no listing, no delete) was issued.
C1_SkippedWithoutSweeping == [](C1_Inv) /\ [][C1_Step]_vars

C1_Witness ==
    Answered /\ response.statusCode = 200 /\ response.body.action = "skipped"

\* C2: the age check returns false exactly when its client was built, its
\* listing succeeded, some listed table starts with the prefix, describe_table
\* on the first such table (in listing order) succeeded, and that table's age
\* is strictly below the threshold; in every other case it returns true, so an
\* age equal to the threshold is old enough.  describe_table is called on that
\* first table and on no other.
C2_AgeCheck ==
    pc = "age_checked" =>
        LET names == age.list.names
            first == { i \in 1..Len(names) :
                        /\ HasPrefix(names[i], environment_prefix)
                        /\ \A j \in 1..(i - 1) :
                               ~HasPrefix(names[j], environment_prefix) }
            reached == age.client_ok /\ age.list.ok /\ first # {}
        IN  /\ age.describe.called <=> reached
            /\ age.describe.called =>
                   \A i \in first : age.describe.name = names[i]
            /\ age.result = FALSE <=>
                   /\ reached
                   /\ age.describe.ok
                   /\ age.describe.seconds < auto_destroy_hours * SecondsPerHour

C2_Witness ==
    /\ pc = "age_checked"
    /\ ~age.result
    /\ Len(age.list.names) = 2
    /\ ~HasPrefix(age.list.names[1], environment_prefix)

C3_Inv ==
    \A k \in SweeperIds :
        LET outs == OutcomesOf(k)
            dels == CallsOf(Sweepers[k].delete)
        IN  /\ Recorded(k)
            /\ Cardinality({ i \in 1..Len(outs) : outs[i].status = "error" })
                 = Cardinality({ i \in 1..Len(dels) : ~dels[i].ok })
            /\ Running(k) => Len(outs) + Len(queue) = Len(MatchesIn(k, listed))

C3_Step ==
    \A k \in SweeperIds :
        /\ (Running(k) /\ queue # <<>>) =>
              /\ pc' = pc
              /\ queue' = Tail(queue)
              /\ Len(cleanup_results'.resources_cleaned) = Len(Outcomes) + 1
        /\ (Running(k) /\ queue = <<>> /\ ~more_pages) =>
              pc' = Sweepers[k].then

\* C3: each sweeper records one outcome per delete call, in the order of the
\* calls, 'deleted' when the call succeeded and 'error' with the call's message
\* when it raised, so as many 'error' outcomes as failed deletes; while a
\* sweeper runs, its outcomes and the matches still to delete add up to the
\* matches of its listing; whatever a delete did, the next step takes the next
\* match, and once none is left the handler goes on to the next sweeper.
C3_ErrorIsolation == [](C3_Inv) /\ [][C3_Step]_vars

C3_Witness ==
    /\ Answered
    /\ response.body.action = "completed"
    /\ Len(Outcomes) = 2
    /\ Outcomes[1].type = Outcomes[2].type
    /\ Outcomes[1].status = "error"
    /\ Outcomes[2].status = "deleted"

C4_Order ==
    /\ \A i \in 1..(Len(Outcomes) - 1) :
          RankOfType(Outcomes[i].type) <= RankOfType(Outcomes[i + 1].type)
    /\ \A i \in 1..(Len(calls) - 1) :
          RankOfCaller(calls[i].by) <= RankOfCaller(calls[i + 1].by)

\* C4 as claimed: whenever the age check returned true, all four sweepers run,
\* in order, and the report and the calls are grouped by kind in that order.
C4_AllFourAlwaysRun ==
    /\ C4_Order
    /\ Swept => \A k \in SweeperIds : Entered(k)

\* C4, amended: when the age check returned true the handler calls the sweepers
\* one after the other in the order tables, buckets, event buses, log groups,
\* and stops only when building a sweeper's client raises: then the later
\* sweepers are not called and the answer is 500 'failed' with the outcomes
\* recorded so far.  Otherwise all four run and the answer is 200 'completed'.
\* In every state the outcomes are grouped by kind in that order, and so are
\* the calls: no call of a sweeper follows a call of a later one.
C4_SweepersInOrder ==
    /\ C4_Order
    /\ (Swept /\ ~ClientRaised) =>
          /\ response.body.action = "completed"
          /\ \A k \in SweeperIds :
                \E i \in 1..Len(calls) :
                    calls[i].by = Sweepers[k].by /\ calls[i].op = Sweepers[k].list
    /\ ClientRaised =>
          /\ Swept
          /\ response.statusCode = 500
          /\ response.body.action = "failed"
          /\ response.body.resources_cleaned = Outcomes
          /\ ~calls[Len(calls)].ok
          /\ calls[Len(calls)].op = "boto3.client"
          /\ \A k \in SweeperIds :
                Entered(k) <=> k <= RankOfCaller(calls[Len(calls)].by)

C4_Witness ==
    /\ Answered
    /\ response.body.action = "completed"
    /\ Len(Outcomes) = 2
    /\ Outcomes[1].type = "dynamodb_table"
    /\ Outcomes[2].type = "cloudwatch_log_group"

\* C5 as claimed: every invocation answers, with a statusCode among 200, 400
\* and 500 and a body that is not empty, and no exception leaves the handler;
\* 400 before any collaborator call, 500 with action 'failed' and the error
\* message, 200 with action 'skipped' or 'completed'.
C5_AlwaysAnswers ==
    /\ pc # "raised"
    /\ Answered =>
          /\ response.statusCode \in {200, 400, 500}
          /\ response.body.keys # {}
          /\ response.statusCode = 400 =>
                calls = <<>> /\ response.body.error # <<>>
          /\ response.statusCode = 500 <=> response.body.action = "failed"
          /\ response.statusCode = 500 => response.body.error # <<>>
          /\ response.statusCode = 200 <=>
                response.body.action \in {"skipped", "completed"}

lower_char(c) ==
    CASE c = "X" -> "x" [] c = "A" -> "a" [] c = "P" -> "p" [] c = "I" -> "i"
      [] c = "K" -> "k" [] c = "E" -> "e" [] c = "Y" -> "y" [] OTHER -> c

lower(name) == [i \in 1..Len(name) |-> lower_char(name[i])]

\* C6 as claimed: the authorizer answers isAuthorized = true exactly when some
\* header whose name is 'x-api-key' in any capitalisation has a non-empty value.
C6_AnyCapitalisation ==
    auth_pc = "returned" =>
        (auth_response.isAuthorized <=>
            /\ auth_event.kind = "dict"
            /\ \E h \in DOMAIN auth_event.items :
                /\ lower(h) = x_api_key
                /\ auth_event.items[h].type = "str"
                /\ auth_event.items[h].s # <<>>)

\* C7: every resource a sweeper deleted, tried to delete or reported matches
\* that sweeper's filter: its name starts with the prefix (tables, buckets,
\* event buses) or holds the prefix somewhere (log groups); and while a sweeper
\* runs, the names it has dealt with followed by those still to come are
\* exactly the names of its listing that match, in listing order.
C7_ExactlyTheMatches ==
    /\ environment_prefix # <<>> \/ (Outcomes = <<>> /\ calls = <<>>)
    /\ \A i \in 1..Len(Outcomes) :
          Matches(RankOfType(Outcomes[i].type), Outcomes[i].name)
    /\ \A i \in 1..Len(calls) :
          calls[i].op \notin ({"boto3.client"} \cup ListOps)
              => Matches(RankOfCaller(calls[i].by), calls[i].name)
    /\ \A k \in SweeperIds :
          Running(k) => NamesOf(OutcomesOf(k)) \o queue = MatchesIn(k, listed)

C7_Witness ==
    /\ pc = "tables_loop"
    /\ queue = <<>>
    /\ listed = << <<"c", "a", "b">>, <<"a", "b", "c">> >>
    /\ NamesOf(OutcomesOf(1)) = << <<"a", "b", "c">> >>

\* C8: for every bucket the sweeper handles, list_objects_v2 comes first, then
\* delete_objects if the listing answered with contents, then delete_bucket,
\* whatever the first two did; the bucket has one outcome, which is what
\* delete_bucket did: 'deleted' if it succeeded, 'error' with its message if
\* it raised.
C8_BucketDeletedRegardless ==
    /\ Recorded(2)
    /\ Len(CallsOf("list_objects_v2")) = Len(OutcomesOf(2))
    /\ \A j \in 1..Len(calls) :
        /\ calls[j].op = "list_objects_v2" =>
              /\ j < Len(calls)
              /\ calls[j + 1].name = calls[j].name
              /\ \/ calls[j + 1].op = "delete_bucket"
                 \/ /\ calls[j].ok
                    /\ calls[j + 1].op = "delete_objects"
        /\ calls[j].op = "delete_objects" =>
              /\ j < Len(calls)
              /\ calls[j + 1].name = calls[j].name
              /\ calls[j + 1].op = "delete_bucket"
              /\ calls[j - 1].op = "list_objects_v2"
        /\ calls[j].op = "delete_bucket" =>
              /\ calls[j - 1].op \in {"list_objects_v2", "delete_objects"}
              /\ calls[j - 1].name = calls[j].name

C8_Witness ==
    /\ Len(OutcomesOf(2)) = 1
    /\ OutcomesOf(2)[1].status = "deleted"
    /\ \E j \in 1..Len(calls) : calls[j].op = "delete_objects" /\ ~calls[j].ok

\* C9 as claimed: the report never holds two outcomes of the same kind and name.
C9_OneOutcomePerName ==
    \A i, j \in 1..Len(Outcomes) :
        (Outcomes[i].type = Outcomes[j].type /\ Outcomes[i].name = Outcomes[j].name)
            => i = j

\* C9, amended: a sweeper issues one delete call and records one outcome per
\* occurrence of a matching name in its listing (all pages together), never a
\* second for the same occurrence; so the report holds at most one outcome per
\* kind and name provided the listing names no resource twice.
C9_OneOutcomePerListedName ==
    \A k \in SweeperIds :
        LET reported == NamesOf(OutcomesOf(k))
            attempted == NamesOf(CallsOf(Sweepers[k].delete))
        IN  /\ Len(reported) = Len(attempted)
            /\ Running(k) =>
                LET matching == MatchesIn(k, listed)
                IN  /\ \A n \in Names :
                        /\ Count(reported, n) + Count(queue, n) = Count(matching, n)
                        /\ Count(attempted, n) = Count(reported, n)
                    /\ NoRepeat(listed) => NoRepeat(reported)

C9_Witness ==
    /\ pc = "logs_loop"
    /\ pages_read = 2
    /\ queue = <<>>
    /\ NoRepeat(listed)
    /\ Len(OutcomesOf(4)) = 2
    /\ OutcomesOf(4)[1].status = "error"

C10_Swallowed ==
    /\ \A k \in SweeperIds \ {4} :
          (\E i \in 1..Len(calls) : calls[i].op = Sweepers[k].list /\ ~calls[i].ok) =>
              /\ OutcomesOf(k) = <<>>
              /\ \A j \in 1..Len(calls) :
                    calls[j].by = Sweepers[k].by =>
                        calls[j].op \in {"boto3.client", Sweepers[k].list}
    /\ \A i \in 1..Len(calls) :
          ListingFailedAt(i) =>
              /\ \A j \in (i + 1)..Len(calls) :
                    RankOfCaller(calls[j].by) > RankOfCaller(calls[i].by)
              /\ i = Len(calls) =>
                    \/ pc = Sweepers[RankOfCaller(calls[i].by)].then
                    \/ Answered /\ response.body.action = "completed"
    /\ Len(OutcomesOf(4)) = Len(CallsOf("delete_log_group"))

\* C10 as claimed: once a listing call has failed, the invocation ends with
\* action 'completed' and statusCode 200.
C10_CompletesAfterListingFailure ==
    /\ C10_Swallowed
    /\ (Answered /\ \E i \in 1..Len(calls) : ListingFailedAt(i)) =>
          /\ response.statusCode = 200
          /\ response.body.action = "completed"

\* C10, amended: a sweeper whose listing call fails records nothing and
\* deletes nothing from then on (the log-group sweeper keeps the outcomes of
\* the pages it had read), the failure does not reach lambda_handler, which
\* goes on to the next sweeper, and the report says nothing of it.  The
\* invocation then ends with action 'completed' and statusCode 200 unless a
\* later sweeper raises while building its client, the one failure that does
\* reach lambda_handler, which answers 500 'failed'.
C10_ListingFailureSwallowed ==
    /\ C10_Swallowed
    /\ (Answered /\ response.statusCode = 500) =>
          /\ ~calls[Len(calls)].ok
          /\ calls[Len(calls)].op = "boto3.client"
    /\ (Swept /\ ~ClientRaised) =>
          /\ response.statusCode = 200
          /\ response.body.action = "completed"
          /\ response.body.status = "success"
          /\ response.body.error = <<>>
          /\ response.body.reason = ""
          /\ response.body.keys =
                {"environment_prefix", "auto_destroy_hours", "cleanup_timestamp",
                 "resources_cleaned", "action", "status"}
          /\ response.body.resources_cleaned = Outcomes
          /\ \A i \in 1..Len(Outcomes) : Outcomes[i].type # ""

C10_Witness ==
    /\ Answered
    /\ response.body.action = "completed"
    /\ \E i \in 1..Len(calls) :
        /\ calls[i].op = "describe_log_groups"
        /\ ~calls[i].ok
        /\ \E j \in 1..(i - 1) : calls[j].op = "delete_log_group"

====
